---------------------------- MODULE Spec2Model ----------------------------
(***************************************************************************)
(* Model of store_proc_validator.py: the cell comparator safe_equals, the  *)
(* sort-by-key alignment, the row comparison loop and the summary table.   *)
(*                                                                         *)
(* Text is modelled as a sequence of one-character strings, so that        *)
(* str(), strip(), lower() and float() are computed character by           *)
(* character.  A float is modelled as an exact decimal m * 10^e; this is   *)
(* exact for the short decimal literals used here (at most 9 significant   *)
(* digits, none of them a 5, so round() never meets a halfway case whose   *)
(* outcome would depend on the binary representation).                     *)
(***************************************************************************)
EXTENDS Integers, Sequences, FiniteSets, TLC

VARIABLES
    ignore_case, ignore_whitespace, float_precision, treat_nulls_equal,
    val1, val2, result,
    df_old, df_new, sort_cols, df_old_sorted, df_new_sorted, warnings,
    common_cols, mismatch_report, mismatched_columns, idx, compared,
    progress, summary_df,
    pc

cfgvars == <<ignore_case, ignore_whitespace, float_precision, treat_nulls_equal>>
eqvars  == <<val1, val2, result>>
dfvars  == <<df_old, df_new>>
sortvars == <<df_old_sorted, df_new_sorted, common_cols>>
loopvars == <<mismatch_report, mismatched_columns, idx, compared, progress>>
vars == <<cfgvars, eqvars, dfvars, sort_cols, sortvars, warnings, loopvars,
          summary_df, pc>>

-----------------------------------------------------------------------------
(* Bounds of the model *)

MaxLen == 2
MaxRows == 2

-----------------------------------------------------------------------------
(* Characters *)

WhitespaceChars == {" "}
DigitChars == <<"0", "1", "2", "3", "4", "5", "6", "7", "8", "9">>
UpperChars == <<"A", "B", "C", "D", "E", "F", "G", "H", "I", "J", "K", "L", "M",
                "N", "O", "P", "Q", "R", "S", "T", "U", "V", "W", "X", "Y", "Z">>
LowerChars == <<"a", "b", "c", "d", "e", "f", "g", "h", "i", "j", "k", "l", "m",
                "n", "o", "p", "q", "r", "s", "t", "u", "v", "w", "x", "y", "z">>

IndexIn(c, seq) ==
    IF \E i \in DOMAIN seq : seq[i] = c
    THEN CHOOSE i \in DOMAIN seq : seq[i] = c
    ELSE 0

DigitSet == {DigitChars[i] : i \in DOMAIN DigitChars}
DigitOf == [c \in DigitSet |-> IndexIn(c, DigitChars) - 1]

IsDigit(c) == c \in DigitSet
DigitVal(c) == DigitOf[c]

UpperSet == {UpperChars[i] : i \in DOMAIN UpperChars}
LowerOf == [c \in UpperSet |-> LowerChars[IndexIn(c, UpperChars)]]

LowerChar(c) == IF c \in UpperSet THEN LowerOf[c] ELSE c

(* str.lower() *)
Lower(s) == [i \in DOMAIN s |-> LowerChar(s[i])]

RECURSIVE StripLeft(_)
StripLeft(s) ==
    IF s = <<>> THEN s
    ELSE IF Head(s) \in WhitespaceChars THEN StripLeft(Tail(s)) ELSE s

RECURSIVE StripRight(_)
StripRight(s) ==
    IF s = <<>> THEN s
    ELSE IF s[Len(s)] \in WhitespaceChars
         THEN StripRight(SubSeq(s, 1, Len(s) - 1))
         ELSE s

(* str.strip() *)
Strip(s) == StripRight(StripLeft(s))

-----------------------------------------------------------------------------
(* Numbers: Python floats as exact decimals *)

RECURSIVE Pow10(_)
Pow10(k) == IF k = 0 THEN 1 ELSE 10 * Pow10(k - 1)

RECURSIVE DigitsToNatFrom(_, _)
DigitsToNatFrom(s, n) ==
    IF n = 0 THEN 0 ELSE 10 * DigitsToNatFrom(s, n - 1) + DigitVal(s[n])

DigitsToNat(s) == DigitsToNatFrom(s, Len(s))

AllDigits(s) == \A i \in DOMAIN s : IsDigit(s[i])

RECURSIVE NatToDigits(_)
NatToDigits(n) ==
    IF n < 10 THEN <<DigitChars[n + 1]>>
    ELSE Append(NatToDigits(n \div 10), DigitChars[(n % 10) + 1])

(* A float value; kind is "fin", "inf" or "nan"; a finite value is        *)
(* (-1)^neg * m * 10^e, kept normalised (m has no trailing zero, zero is   *)
(* +0 * 10^0, since -0.0 == 0.0).                                          *)
RECURSIVE Normal(_, _, _)
Normal(neg, m, e) ==
    IF m = 0 THEN [kind |-> "fin", neg |-> FALSE, m |-> 0, e |-> 0]
    ELSE IF m % 10 = 0 THEN Normal(neg, m \div 10, e + 1)
    ELSE [kind |-> "fin", neg |-> neg, m |-> m, e |-> e]

FloatNaN == [kind |-> "nan", neg |-> FALSE, m |-> 0, e |-> 0]
FloatInf(neg) == [kind |-> "inf", neg |-> neg, m |-> 0, e |-> 0]

FirstIndex(s, chars) ==
    IF \E i \in DOMAIN s : s[i] \in chars
    THEN CHOOSE i \in DOMAIN s : s[i] \in chars /\ \A j \in 1..(i - 1) : s[j] \notin chars
    ELSE 0

(* float(str): [exc |-> "none" | "ValueError", val |-> float].            *)
(* Grammar: optional surrounding whitespace, optional sign, then           *)
(* inf | infinity | nan (any case) or digits[.digits][e[sign]digits].      *)
(* The underscore float() accepts between digits is not among the input    *)
(* characters.                                                             *)
ParseError == [exc |-> "ValueError", val |-> FloatNaN]
ParseOk(v) == [exc |-> "none", val |-> v]

(* the decimal of integer digits ip, fraction digits fp and exponent       *)
(* digits expD (hasExp: an exponent part is present, expNeg: it is signed  *)
(* negative)                                                               *)
DecimalValue(neg, ip, fp, hasExp, expNeg, expD) ==
    IF /\ AllDigits(ip) /\ AllDigits(fp) /\ (ip \o fp) # <<>>
       /\ (hasExp => (expD # <<>> /\ AllDigits(expD)))
    THEN ParseOk(Normal(neg, DigitsToNat(ip \o fp),
                        (IF ~hasExp THEN 0
                         ELSE IF expNeg THEN 0 - DigitsToNat(expD)
                         ELSE DigitsToNat(expD)) - Len(fp)))
    ELSE ParseError

(* the mantissa split at its decimal point dot (0: none) *)
SplitMantissa(neg, mant, dot, hasExp, expS) ==
    DecimalValue(neg,
                 IF dot = 0 THEN mant ELSE SubSeq(mant, 1, dot - 1),
                 IF dot = 0 THEN <<>> ELSE SubSeq(mant, dot + 1, Len(mant)),
                 hasExp,
                 expS # <<>> /\ Head(expS) = "-",
                 IF expS # <<>> /\ Head(expS) \in {"+", "-"} THEN Tail(expS) ELSE expS)

ParseMantissa(neg, mant, hasExp, expS) ==
    SplitMantissa(neg, mant, FirstIndex(mant, {"."}), hasExp, expS)

(* the literal split at its exponent marker ePos (0: none) *)
SplitExponent(neg, body, ePos) ==
    ParseMantissa(neg,
                  IF ePos = 0 THEN body ELSE SubSeq(body, 1, ePos - 1),
                  ePos # 0,
                  IF ePos = 0 THEN <<>> ELSE SubSeq(body, ePos + 1, Len(body)))

ParseDecimal(neg, body) == SplitExponent(neg, body, FirstIndex(body, {"e", "E"}))

ParseWord(neg, body, low) ==
    IF low \in {<<"i", "n", "f">>, <<"i", "n", "f", "i", "n", "i", "t", "y">>}
    THEN ParseOk(FloatInf(neg))
    ELSE IF low = <<"n", "a", "n">> THEN ParseOk(FloatNaN)
    ELSE ParseDecimal(neg, body)

ParseUnsigned(neg, body) == ParseWord(neg, body, Lower(body))

ParseStripped(t) ==
    ParseUnsigned(t # <<>> /\ Head(t) = "-",
                  IF t # <<>> /\ Head(t) \in {"+", "-"} THEN Tail(t) ELSE t)

FloatParse(s) == ParseStripped(Strip(s))

(* x without its k last digits, rounded or cut (up) *)
DropDigits(x, ndigits, q, up) == Normal(x.neg, IF up THEN q + 1 ELSE q, 0 - ndigits)

RoundHalfEven(x, ndigits, q, r, half) ==
    DropDigits(x, ndigits, q, r > half \/ (r = half /\ q % 2 = 1))

(* PyRound with the digits beyond ndigits cut off instead of rounded *)
PyRound_Truncate(x, ndigits) ==
    IF x.kind # "fin" \/ x.e >= 0 - ndigits THEN x
    ELSE IF (0 - ndigits) - x.e > 9 THEN Normal(FALSE, 0, 0)
    ELSE DropDigits(x, ndigits, x.m \div Pow10((0 - ndigits) - x.e), FALSE)

(* round(x, ndigits) for ndigits >= 1: the (0 - ndigits) - x.e digits      *)
(* beyond the ndigits-th decimal are rounded away                          *)
PyRound(x, ndigits) ==
    IF x.kind # "fin" \/ x.e >= 0 - ndigits THEN x
    ELSE IF (0 - ndigits) - x.e > 9 THEN Normal(FALSE, 0, 0)
    ELSE RoundHalfEven(x, ndigits,
                       x.m \div Pow10((0 - ndigits) - x.e),
                       x.m % Pow10((0 - ndigits) - x.e),
                       5 * Pow10((0 - ndigits) - x.e - 1))

(* float == float *)
FloatEq(x, y) ==
    /\ x.kind # "nan"
    /\ y.kind # "nan"
    /\ x = y

-----------------------------------------------------------------------------
(* Cell values: None, float NaN, int, bool and str *)

NoneVal == [t |-> "none", n |-> 0, s |-> <<>>]
NaNVal == [t |-> "nan", n |-> 0, s |-> <<>>]
IntVal(i) == [t |-> "int", n |-> i, s |-> <<>>]
BoolVal(b) == [t |-> "bool", n |-> IF b THEN 1 ELSE 0, s |-> <<>>]
StrVal(chars) == [t |-> "str", n |-> 0, s |-> chars]

(* pd.isna(val) for a scalar *)
IsNa(val) == val.t \in {"none", "nan"}

(* str(val) *)
Str(val) ==
    CASE val.t = "none" -> <<"N", "o", "n", "e">>
      [] val.t = "nan"  -> <<"n", "a", "n">>
      [] val.t = "int"  -> IF val.n < 0 THEN <<"-">> \o NatToDigits(0 - val.n)
                                        ELSE NatToDigits(val.n)
      [] val.t = "bool" -> IF val.n = 1 THEN <<"T", "r", "u", "e">>
                                        ELSE <<"F", "a", "l", "s", "e">>
      [] val.t = "str"  -> val.s

(* str(val) if val is not None else "" *)
ToStr(val) == IF val.t # "none" THEN Str(val) ELSE <<>>

(* lines 16-19: the settings safe_equals reads, as one record *)
Settings ==
    [ic |-> ignore_case, iw |-> ignore_whitespace, fp |-> float_precision,
     tn |-> treat_nulls_equal]

(* lines 36-38 *)
CaseFold(str, c) == IF c.ic THEN Lower(str) ELSE str

(* lines 32-38: strip and lower under the two flags *)
PostProcess(str, c) == CaseFold(IF c.iw THEN Strip(str) ELSE str, c)

(* float(str) if str else float('nan') *)
ToNum(str) == IF str # <<>> THEN FloatParse(str) ELSE ParseOk(FloatNaN)

(* CaughtExceptions with ValueError left out of the except clause *)
CaughtExceptions_TypeErrorOnly == {"TypeError"}

(* the exceptions the except clause of line 45 catches *)
CaughtExceptions == {"ValueError", "TypeError"}

(* line 45: an exception raised in the try block is caught or leaves it *)
ExceptClause(raised) ==
    [returned |-> FALSE, ret |-> FALSE,
     exc |-> IF raised \in CaughtExceptions THEN "none" ELSE raised]

(* lines 41-46 given the outcomes of the two float() calls *)
NumericResult(num1, num2, c) ==
    IF num1.exc # "none" THEN ExceptClause(num1.exc)
    ELSE IF num2.exc # "none" THEN ExceptClause(num2.exc)
    ELSE IF num1.val.kind # "nan" /\ num2.val.kind # "nan"
    THEN [returned |-> TRUE,
          ret |-> FloatEq(PyRound(num1.val, c.fp), PyRound(num2.val, c.fp)),
          exc |-> "none"]
    ELSE [returned |-> FALSE, ret |-> FALSE, exc |-> "none"]

(* lines 40-46: the try block; returned says that line 44 returned ret,    *)
(* exc names the exception that left the try statement uncaught            *)
TryNumeric(str1, str2, c) == NumericResult(ToNum(str1), ToNum(str2), c)

(* NullCheck that tests only the first value for null *)
NullCheck_OneSided(v1, v2, c) ==
    IF ~c.tn THEN [decided |-> FALSE, ret |-> FALSE]
    ELSE IF IsNa(v1) THEN [decided |-> TRUE, ret |-> IsNa(v2)]
    ELSE [decided |-> FALSE, ret |-> FALSE]

(* lines 23-27: the null branch; decided says that it returned ret *)
NullCheck(v1, v2, c) ==
    IF ~c.tn THEN [decided |-> FALSE, ret |-> FALSE]
    ELSE IF IsNa(v1) /\ IsNa(v2) THEN [decided |-> TRUE, ret |-> TRUE]
    ELSE IF IsNa(v1) \/ IsNa(v2) THEN [decided |-> TRUE, ret |-> FALSE]
    ELSE [decided |-> FALSE, ret |-> FALSE]

(* lines 40-48 given the outcome num of the try block *)
AfterNumeric(num, str1, str2) ==
    IF num.exc # "none" THEN [exc |-> num.exc, ret |-> FALSE]
    ELSE IF num.returned THEN [exc |-> "none", ret |-> num.ret]
    ELSE [exc |-> "none", ret |-> str1 = str2]

(* lines 23-48 given the outcome nul of the null branch *)
AfterNullCheck(nul, str1, str2, c) ==
    IF nul.decided THEN [exc |-> "none", ret |-> nul.ret]
    ELSE AfterNumeric(TryNumeric(str1, str2, c), str1, str2)

(* the body of safe_equals under the settings c:                           *)
(* [exc |-> exception raised or "none", ret |-> the value returned]        *)
SafeEqualsUnder(v1, v2, c) ==
    AfterNullCheck(NullCheck(v1, v2, c),
                   PostProcess(ToStr(v1), c), PostProcess(ToStr(v2), c), c)

-----------------------------------------------------------------------------
(* Inputs of the comparator *)

GenChars == {"1", " ", "A"}

RECURSIVE StringsUpTo(_)
StringsUpTo(k) ==
    IF k = 0 THEN {<<>>}
    ELSE LET shorter == StringsUpTo(k - 1)
         IN  shorter \cup {Append(s, c) : s \in shorter, c \in GenChars}

SampleStrings ==
    { <<"1", "0", ".", "0", "0">>, <<"1", "0">>, <<"1", "0", ".", "0", "1">>,
      <<"1", ".", "0", "0", "0", "0", "0", "1">>, <<"1", ".", "0", "0", "0", "0", "0", "2">>,
      <<"1", ".", "0", "0", "0", "0", "1">>, <<"1", ".", "0", "0", "0", "0", "2">>,
      <<"1", "2">>, <<"1", "2", "a">>, <<" ", "F", "o", "o", " ">>, <<"f", "o", "o">>,
      <<"1", "e", "1">>, <<"1", "E", "1">>, <<"-", "1">>, <<"-", "0">>, <<"0">>,
      <<"n", "a", "n">>, <<"N", "a", "N">>, <<"i", "n", "f">>, <<"-", "I", "n", "f">>,
      <<"0", ".", "0", "6">>, <<"0", ".", "1">>, <<"1", ".">>, <<".", "1">>, <<".">>,
      <<"a">>,
      <<"T", "r", "u", "e">>, <<"N", "o", "n", "e">> }

Values ==
    {NoneVal, NaNVal, IntVal(1), IntVal(10), BoolVal(TRUE)}
      \cup {StrVal(s) : s \in StringsUpTo(MaxLen) \cup SampleStrings}

FloatPrecisionMin == 1
FloatPrecisionMax == 10

(* the precisions the inputs are drawn from, within the widget's range *)
Precisions == {p \in {1, 3, 5} : FloatPrecisionMin <= p /\ p <= FloatPrecisionMax}

-----------------------------------------------------------------------------
(* Datasets: a set of column names and a sequence of rows (column -> value) *)

Min(a, b) == IF a <= b THEN a ELSE b

Range(seq) == {seq[i] : i \in DOMAIN seq}

EmptyFrame == [columns |-> {}, rows |-> <<>>]

OldSchemas == {{"id", "v"}}
NewSchemas == {{"id", "v"}, {"id", "w"}, {"v", "w"}}

ColumnValues(c) ==
    CASE c = "id" -> {IntVal(1), IntVal(2)}
      [] c = "v"  -> {StrVal(<<"1", "0", ".", "0", "0">>), StrVal(<<"1", "0", ".", "0", "1">>)}
      [] OTHER    -> {StrVal(<<"1", "0", ".", "0", "0">>)}

RowsOver(cols) ==
    {r \in [cols -> UNION {ColumnValues(c) : c \in cols}] :
        \A c \in cols : r[c] \in ColumnValues(c)}

RECURSIVE SeqsUpTo(_, _)
SeqsUpTo(S, k) ==
    IF k = 0 THEN {<<>>}
    ELSE LET shorter == SeqsUpTo(S, k - 1)
         IN  shorter \cup {Append(q, x) : q \in shorter, x \in S}

Frames(schemas) ==
    UNION {{[columns |-> cols, rows |-> rs] : rs \in SeqsUpTo(RowsOver(cols), MaxRows)} :
              cols \in schemas}

(* the multiselect of line 82: any ordered selection of distinct columns *)
KeySelections(cols) ==
    {q \in SeqsUpTo(cols, Cardinality(cols)) : \A i, j \in DOMAIN q : i # j => q[i] # q[j]}

(* the configurations the pipeline is run under: the widgets' defaults and *)
(* every flag cleared with the coarsest precision                          *)
Configurations ==
    { [ic |-> TRUE, iw |-> TRUE, fp |-> 5, tn |-> TRUE],
      [ic |-> FALSE, iw |-> FALSE, fp |-> FloatPrecisionMin, tn |-> FALSE] }

(* the cell values of the frames *)
FrameCells == UNION {ColumnValues(c) : c \in UNION (OldSchemas \cup NewSchemas)}

(* safe_equals tabulated once over the cells of the frames, so that the    *)
(* row loop does not parse the same cells again in every state             *)
SafeEqualsOnCells ==
    [c \in Configurations |->
        [v1 \in FrameCells |-> [v2 \in FrameCells |-> SafeEqualsUnder(v1, v2, c)]]]

(* safe_equals(val1, val2) under the current settings *)
SafeEquals(v1, v2) ==
    IF Settings \in Configurations /\ v1 \in FrameCells /\ v2 \in FrameCells
    THEN SafeEqualsOnCells[Settings][v1][v2]
    ELSE SafeEqualsUnder(v1, v2, Settings)

-----------------------------------------------------------------------------
(* DataFrame.sort_values(by=sort_cols).reset_index(drop=True) *)

AsciiOrder == <<" ", "+", "-", ".">> \o DigitChars \o UpperChars \o LowerChars

RECURSIVE StrLess(_, _)
StrLess(a, b) ==
    IF b = <<>> THEN FALSE
    ELSE IF a = <<>> THEN TRUE
    ELSE IF Head(a) = Head(b) THEN StrLess(Tail(a), Tail(b))
    ELSE IndexIn(Head(a), AsciiOrder) < IndexIn(Head(b), AsciiOrder)

(* ascending order of one key column, nulls last (na_position="last") *)
CellLess(a, b) ==
    IF IsNa(a) THEN FALSE
    ELSE IF IsNa(b) THEN TRUE
    ELSE IF a.t = "str" THEN StrLess(a.s, b.s)
    ELSE a.n < b.n

RECURSIVE KeyLess(_, _, _)
KeyLess(r1, r2, by) ==
    IF by = <<>> THEN FALSE
    ELSE IF CellLess(r1[Head(by)], r2[Head(by)]) THEN TRUE
    ELSE IF CellLess(r2[Head(by)], r1[Head(by)]) THEN FALSE
    ELSE KeyLess(r1, r2, Tail(by))

(* SortValues that leaves the rows in their input order *)
SortValues_InputOrder(df, by) == {df.rows}

(* every ordering of the rows that is ascending in the key: the default    *)
(* sort kind is not stable, so rows with equal keys may come out in any    *)
(* order (the input order included)                                        *)
SortValues(df, by) ==
    LET n == Len(df.rows)
    IN  {[i \in 1..n |-> df.rows[p[i]]] : p \in
            {q \in Permutations(1..n) :
                \A i, j \in 1..n : i < j => ~KeyLess(df.rows[q[j]], df.rows[q[i]], by)}}

-----------------------------------------------------------------------------
(* The comparison loop and the report *)

ProgressEvery == 10

(* LoopBound over the longer of the two frames *)
LoopBound_Max ==
    IF Len(df_old_sorted) >= Len(df_new_sorted)
    THEN Len(df_old_sorted) ELSE Len(df_new_sorted)

(* range(min(len(df_old_sorted), len(df_new_sorted))) *)
LoopBound == Min(Len(df_old_sorted), Len(df_new_sorted))

(* frame.loc[i, col] on a frame with index 0..len-1 *)
HasRow(rows, i) == (i + 1) \in DOMAIN rows
Loc(rows, i, col) == rows[i + 1][col]

(* RowDiffs that does not compare the key columns *)
RowDiffs_SkipKeys(i) ==
    {col \in common_cols \ Range(sort_cols) :
        ~SafeEquals(Loc(df_old_sorted, i, col), Loc(df_new_sorted, i, col)).ret}

(* lines 109-116: the common columns whose values differ in row i *)
RowDiffs(i) ==
    {col \in common_cols :
        ~SafeEquals(Loc(df_old_sorted, i, col), Loc(df_new_sorted, i, col)).ret}

RowRaises(i) ==
    \E col \in common_cols :
        SafeEquals(Loc(df_old_sorted, i, col), Loc(df_new_sorted, i, col)).exc # "none"

(* KeyData read from the sorted file 2 *)
KeyData_FromNew(i) == [k \in Range(sort_cols) |-> Loc(df_new_sorted, i, k)]

(* lines 105-107: the key values of the record *)
KeyData(i) == [k \in Range(sort_cols) |-> Loc(df_old_sorted, i, k)]

(* lines 105-116: the record of row i *)
RowData(i) ==
    LET diffs == RowDiffs(i)
    IN  [Row |-> i + 1,
         Key |-> KeyData(i),
         Old |-> [col \in diffs |-> Loc(df_old_sorted, i, col)],
         New |-> [col \in diffs |-> Loc(df_new_sorted, i, col)]]

(* line 135: sum(1 for row in mismatch_report if f"Old_{col}" in row) *)
MismatchCount(col) ==
    Cardinality({i \in DOMAIN mismatch_report : col \in DOMAIN mismatch_report[i].Old})

(* PercentDivisor taken from file 1 alone *)
PercentDivisor_OldLen == Len(df_old_sorted)

(* line 140: the divisor of "% of Rows" *)
PercentDivisor == Min(Len(df_old_sorted), Len(df_new_sorted))

(* a / b as the exact fraction, or the exception *)
Divide(a, b) ==
    IF b = 0 THEN [exc |-> "ZeroDivisionError", num |-> 0, den |-> 1]
    ELSE [exc |-> "none", num |-> a, den |-> b]

NoProgress == [exc |-> "none", num |-> 0, den |-> 1]

Init ==
    /\ \E c \in Configurations :
          /\ ignore_case = c.ic
          /\ ignore_whitespace = c.iw
          /\ float_precision = c.fp
          /\ treat_nulls_equal = c.tn
    /\ val1 = NoneVal
    /\ val2 = NoneVal
    /\ result = [called |-> FALSE, exc |-> "none", ret |-> FALSE]
    /\ df_old = EmptyFrame
    /\ df_new = EmptyFrame
    /\ sort_cols = <<>>
    /\ df_old_sorted = <<>>
    /\ df_new_sorted = <<>>
    /\ warnings = {}
    /\ common_cols = {}
    /\ mismatch_report = <<>>
    /\ mismatched_columns = {}
    /\ idx = 0
    /\ compared = {}
    /\ progress = NoProgress
    /\ summary_df = <<>>
    /\ pc = "start"

(* KeysSelected without the test of line 84 *)
KeysSelected_Always == TRUE

(* line 84: if sort_cols *)
KeysSelected == sort_cols # <<>>

(* lines 176-177: a file is missing *)
AwaitUpload ==
    /\ pc = "start"
    /\ pc' = "no_files"
    /\ UNCHANGED <<cfgvars, eqvars, dfvars, sort_cols, sortvars, warnings, loopvars,
                   summary_df>>

(* lines 50-80: both files are read, the column sets are compared *)
ReadExcel ==
    /\ pc = "start"
    /\ df_old' \in Frames(OldSchemas)
    /\ df_new' \in Frames(NewSchemas)
    /\ warnings' = IF df_old'.columns # df_new'.columns THEN {"column_mismatch"} ELSE {}
    /\ pc' = "select"
    /\ UNCHANGED <<cfgvars, eqvars, sort_cols, sortvars, loopvars, summary_df>>

(* line 82: the key columns are chosen among the columns of file 1 *)
SelectKeys ==
    /\ pc = "select"
    /\ sort_cols' \in KeySelections(df_old.columns)
    /\ pc' = "selected"
    /\ UNCHANGED <<cfgvars, eqvars, dfvars, sortvars, warnings, loopvars, summary_df>>

(* lines 84, 174-175: no key column selected *)
NoKeySelected ==
    /\ pc = "selected"
    /\ ~KeysSelected
    /\ pc' = "no_key"
    /\ UNCHANGED <<cfgvars, eqvars, dfvars, sort_cols, sortvars, warnings, loopvars,
                   summary_df>>

(* lines 85-86: sort_values raises KeyError for a key that file 2 lacks *)
SortKeyError ==
    /\ pc = "selected"
    /\ KeysSelected
    /\ ~(Range(sort_cols) \subseteq df_new.columns)
    /\ df_old_sorted' \in SortValues(df_old, sort_cols)
    /\ pc' = "KeyError"
    /\ UNCHANGED <<cfgvars, eqvars, dfvars, sort_cols, df_new_sorted, common_cols,
                   warnings, loopvars, summary_df>>

(* lines 84-97: both frames are sorted, the loop is set up *)
SortFrames ==
    /\ pc = "selected"
    /\ KeysSelected
    /\ Range(sort_cols) \subseteq df_new.columns
    /\ df_old_sorted' \in SortValues(df_old, sort_cols)
    /\ df_new_sorted' \in SortValues(df_new, sort_cols)
    /\ progress' = [exc |-> "none", num |-> 0, den |-> 1]
    /\ warnings' = IF Len(df_old_sorted') # Len(df_new_sorted')
                   THEN warnings \cup {"row_count_mismatch"}
                   ELSE warnings
    /\ common_cols' = df_old.columns \cap df_new.columns
    /\ mismatch_report' = <<>>
    /\ mismatched_columns' = {}
    /\ idx' = 0
    /\ compared' = {}
    /\ pc' = "loop"
    /\ UNCHANGED <<cfgvars, eqvars, dfvars, sort_cols, summary_df>>

(* lines 99-119: one iteration of the row loop *)
CompareRow ==
    /\ pc = "loop"
    /\ idx < LoopBound
    /\ LET prog == IF idx % ProgressEvery = 0
                   THEN Divide(idx, Min(Len(df_old_sorted), Len(df_new_sorted)))
                   ELSE progress
       IN  IF prog.exc # "none"
           THEN /\ pc' = prog.exc
                /\ UNCHANGED loopvars
           ELSE IF ~HasRow(df_old_sorted, idx) \/ ~HasRow(df_new_sorted, idx)
           THEN /\ pc' = "IndexError"
                /\ progress' = prog
                /\ UNCHANGED <<mismatch_report, mismatched_columns, idx, compared>>
           ELSE IF RowRaises(idx)
           THEN /\ pc' = "ValueError"
                /\ progress' = prog
                /\ compared' = compared \cup {idx}
                /\ UNCHANGED <<mismatch_report, mismatched_columns, idx>>
           ELSE /\ progress' = prog
                /\ compared' = compared \cup {idx}
                /\ LET row_data == RowData(idx)
                   IN  /\ mismatched_columns' = mismatched_columns \cup DOMAIN row_data.Old
                       /\ mismatch_report' = IF DOMAIN row_data.Old # {}
                                             THEN Append(mismatch_report, row_data)
                                             ELSE mismatch_report
                /\ idx' = idx + 1
                /\ pc' = "loop"
    /\ UNCHANGED <<cfgvars, eqvars, dfvars, sort_cols, sortvars, warnings, summary_df>>

(* lines 99, 121-124: the loop is exhausted *)
FinishLoop ==
    /\ pc = "loop"
    /\ ~(idx < LoopBound)
    /\ progress' = [exc |-> "none", num |-> 1, den |-> 1]
    /\ pc' = "compared"
    /\ UNCHANGED <<cfgvars, eqvars, dfvars, sort_cols, sortvars, warnings,
                   mismatch_report, mismatched_columns, idx, compared, summary_df>>

(* lines 126-127: the report is empty *)
NoMismatches ==
    /\ pc = "compared"
    /\ mismatch_report = <<>>
    /\ pc' = "identical"
    /\ UNCHANGED <<cfgvars, eqvars, dfvars, sort_cols, sortvars, warnings, loopvars,
                   summary_df>>

(* lines 128-141: the summary table, one line per mismatched column *)
SummaryRows ==
    {[Column |-> col, Count |-> MismatchCount(col),
      Percent |-> Divide(MismatchCount(col) * 100, PercentDivisor)] :
        col \in mismatched_columns}

Summarize ==
    /\ pc = "compared"
    /\ mismatch_report # <<>>
    /\ IF \E r \in SummaryRows : r.Percent.exc # "none"
       THEN /\ pc' = "ZeroDivisionError"
            /\ UNCHANGED summary_df
       ELSE /\ summary_df' \in
                 {q \in SeqsUpTo(SummaryRows, Cardinality(SummaryRows)) :
                     /\ Range(q) = SummaryRows
                     /\ Len(q) = Cardinality(SummaryRows)}
            /\ pc' = "reported"
    /\ UNCHANGED <<cfgvars, eqvars, dfvars, sort_cols, sortvars, warnings, loopvars>>

Next ==
    \/ AwaitUpload
    \/ ReadExcel
    \/ SelectKeys
    \/ NoKeySelected
    \/ SortKeyError
    \/ SortFrames
    \/ CompareRow
    \/ FinishLoop
    \/ NoMismatches
    \/ Summarize

Spec == Init /\ [][Next]_vars

-----------------------------------------------------------------------------
(* The comparator on its own: one call of safe_equals on arbitrary values *)

InitEq ==
    /\ ignore_case \in BOOLEAN
    /\ ignore_whitespace \in BOOLEAN
    /\ treat_nulls_equal \in BOOLEAN
    /\ float_precision \in Precisions
    /\ val1 \in Values
    /\ val2 \in Values
    /\ result = [called |-> FALSE, exc |-> "none", ret |-> FALSE]
    /\ df_old = EmptyFrame
    /\ df_new = EmptyFrame
    /\ sort_cols = <<>>
    /\ df_old_sorted = <<>>
    /\ df_new_sorted = <<>>
    /\ warnings = {}
    /\ common_cols = {}
    /\ mismatch_report = <<>>
    /\ mismatched_columns = {}
    /\ idx = 0
    /\ compared = {}
    /\ progress = NoProgress
    /\ summary_df = <<>>
    /\ pc = "call"

CallSafeEquals ==
    /\ pc = "call"
    /\ LET r == SafeEquals(val1, val2)
       IN  result' = [called |-> TRUE, exc |-> r.exc, ret |-> r.ret]
    /\ pc' = "returned"
    /\ UNCHANGED <<cfgvars, val1, val2, dfvars, sort_cols, sortvars, warnings,
                   loopvars, summary_df>>

NextEq == CallSafeEquals

SpecEq == InitEq /\ [][NextEq]_vars

-----------------------------------------------------------------------------
(* Properties of safe_equals, under SpecEq *)

S(chars) == StrVal(chars)
str1 == PostProcess(ToStr(val1), Settings)
str2 == PostProcess(ToStr(val2), Settings)

(* x * 10^p rounded to the nearest integer, for a finite x *)
RoundedUnits(x, p) ==
    LET sh == x.e + p
        mag == IF sh >= 0 THEN x.m * Pow10(sh)
               ELSE LET d == Pow10(0 - sh)
                    IN  IF 2 * (x.m % d) > d THEN (x.m \div d) + 1
                        ELSE IF 2 * (x.m % d) < d THEN x.m \div d
                        ELSE (x.m \div d) + ((x.m \div d) % 2)
    IN  IF x.neg THEN 0 - mag ELSE mag

ParsesAsNumber(str) ==
    str # <<>> /\ FloatParse(str).exc = "none" /\ FloatParse(str).val.kind # "nan"

RoundedEqual(x, y, p) ==
    IF x.kind = "fin" /\ y.kind = "fin" THEN RoundedUnits(x, p) = RoundedUnits(y, p)
    ELSE x.kind = y.kind /\ x.neg = y.neg

C5_NullLike(v) == v \in {NoneVal, NaNVal, StrVal(<<>>)}

(* C5: with treat_nulls_equal set, two null-like values (None, NaN, empty  *)
(* string) compare equal and a null-like value never equals a value that   *)
(* is not null-like.                                                       *)
C5_NullLikeValuesEqual ==
    (result.called /\ treat_nulls_equal) =>
        /\ (C5_NullLike(val1) /\ C5_NullLike(val2)) => result.ret
        /\ (C5_NullLike(val1) # C5_NullLike(val2)) => ~result.ret

C6_Example(a, b, p, expected) ==
    (val1 = S(a) /\ val2 = S(b) /\ float_precision = p) => (result.ret = expected)

(* C6: when both post-processed strings parse as numbers, safe_equals      *)
(* returns the equality of the two numbers rounded to float_precision      *)
(* decimal digits, whatever the text and the two flags are.                *)
C6_NumericComparison ==
    result.called =>
        /\ (ParsesAsNumber(str1) /\ ParsesAsNumber(str2)) =>
              /\ result.exc = "none"
              /\ result.ret = RoundedEqual(FloatParse(str1).val, FloatParse(str2).val,
                                           float_precision)
        /\ C6_Example(<<"1", "0", ".", "0", "0">>, <<"1", "0">>, float_precision, TRUE)
        /\ C6_Example(<<"1", "0", ".", "0", "0">>, <<"1", "0", ".", "0", "1">>, 1, TRUE)
        /\ C6_Example(<<"1", "0", ".", "0", "0">>, <<"1", "0", ".", "0", "1">>, 3, FALSE)
        /\ C6_Example(<<"1", ".", "0", "0", "0", "0", "0", "1">>,
                      <<"1", ".", "0", "0", "0", "0", "0", "2">>, 5, TRUE)
        /\ C6_Example(<<"1", ".", "0", "0", "0", "0", "1">>,
                      <<"1", ".", "0", "0", "0", "0", "2">>, 5, FALSE)

C6_Witness ==
    /\ result.called
    /\ val1 = S(<<"1", "0", ".", "0", "0">>)
    /\ val2 = S(<<"1", "0", ".", "0", "1">>)
    /\ float_precision = 1
    /\ ~ignore_case
    /\ result.ret

(* C7: safe_equals(a, b) and safe_equals(b, a) give the same outcome for   *)
(* all values and every configuration.                                     *)
C7_Symmetric ==
    result.called =>
        /\ result.ret = SafeEquals(val2, val1).ret
        /\ result.exc = SafeEquals(val2, val1).exc

C7_Witness ==
    /\ result.called
    /\ val1 = S(<<"n", "a", "n">>)
    /\ val2 = NaNVal
    /\ treat_nulls_equal
    /\ ~result.ret

(* C8: safe_equals never ends in an exception; when the numeric attempt is *)
(* reached and a side fails to parse or is not a number, the result is the *)
(* equality of the post-processed strings ("12" against "12a" is unequal). *)
C8_TotalWithStringFallback ==
    result.called =>
        /\ result.exc = "none"
        /\ (/\ ~NullCheck(val1, val2, Settings).decided
            /\ ~(ParsesAsNumber(str1) /\ ParsesAsNumber(str2)))
              => (result.ret = (str1 = str2))
        /\ (val1 = S(<<"1", "2">>) /\ val2 = S(<<"1", "2", "a">>)) => ~result.ret

C8_Witness ==
    /\ result.called
    /\ val1 = S(<<"1", "2">>)
    /\ val2 = S(<<"1", "2", "a">>)
    /\ result.exc = "none"
    /\ ~result.ret

-----------------------------------------------------------------------------
(* Properties of the comparison run, under Spec *)

InLoop == pc \in {"loop", "compared", "identical", "reported"}
LoopOver == pc \in {"compared", "identical", "reported"}
Rejected == pc \in {"no_key", "KeyError"}

MinRows == IF Len(df_old_sorted) <= Len(df_new_sorted)
           THEN Len(df_old_sorted) ELSE Len(df_new_sorted)

CommonColumns == {c \in df_old.columns : c \in df_new.columns}

(* the common columns in which the sorted frames differ at 0-based row i *)
Differing(i) ==
    {c \in CommonColumns :
        ~SafeEquals(df_old_sorted[i + 1][c], df_new_sorted[i + 1][c]).ret}

(* the two files hold the same rows, each as often, in some order *)
SameRowMultiset ==
    /\ df_old.columns = df_new.columns
    /\ Len(df_old.rows) = Len(df_new.rows)
    /\ \E p \in Permutations(1..Len(df_old.rows)) :
          \A i \in 1..Len(df_old.rows) : df_new.rows[i] = df_old.rows[p[i]]

(* neither row sorts before the other *)
SameKey(r1, r2) == ~KeyLess(r1, r2, sort_cols) /\ ~KeyLess(r2, r1, sort_cols)

(* rows of file 1 that share their key tuple are equal under safe_equals *)
EqualKeysAgree ==
    \A i, j \in DOMAIN df_old.rows :
        SameKey(df_old.rows[i], df_old.rows[j]) =>
            \A c \in df_old.columns :
                SafeEquals(df_old.rows[i][c], df_old.rows[j][c]).ret

(* sorted is rows in ascending key order, rows of equal key in input order *)
IsStableSort(sorted, rows) ==
    /\ Len(sorted) = Len(rows)
    /\ \E p \in Permutations(1..Len(rows)) :
          /\ \A i \in 1..Len(rows) : sorted[i] = rows[p[i]]
          /\ \A i, j \in 1..Len(rows) :
                i < j => \/ KeyLess(rows[p[i]], rows[p[j]], sort_cols)
                         \/ (SameKey(rows[p[i]], rows[p[j]]) /\ p[i] < p[j])

(* C1 as stated: two files with the same multiset of rows in different     *)
(* input orders, sorted by any non-empty key, compare without a mismatch   *)
(* record, also when rows share a key tuple and differ in other columns    *)
(* (stated for the runs in which rows of equal key keep their input        *)
(* order, as they do in frames of this size).                              *)
C1_AlignmentIndependence ==
    (/\ LoopOver
     /\ SameRowMultiset
     /\ df_old.rows # df_new.rows
     /\ IsStableSort(df_old_sorted, df_old.rows)
     /\ IsStableSort(df_new_sorted, df_new.rows)) => mismatch_report = <<>>

(* C1 amended: two files with the same multiset of rows, sorted by any     *)
(* non-empty key, compare without a mismatch record provided the rows that *)
(* share a key tuple are equal under safe_equals in every column.          *)
C1_AlignmentIndependenceUniqueKeys ==
    (LoopOver /\ SameRowMultiset /\ EqualKeysAgree) => mismatch_report = <<>>

C1_Witness ==
    /\ pc = "identical"
    /\ SameRowMultiset
    /\ EqualKeysAgree
    /\ Len(df_old.rows) = 2
    /\ df_old.rows # df_new.rows
    /\ df_old.rows[1] # df_old.rows[2]

(* C2: the loop reads exactly the row positions 0..min(m,n)-1, each of     *)
(* them present in both sorted frames; a difference in row count raises    *)
(* the warning and the loop still covers all these positions; no record    *)
(* is made for a row beyond min(m,n).                                      *)
C2_LoopWithinBounds ==
    /\ pc # "IndexError"
    /\ InLoop =>
          /\ compared = 0..(idx - 1)
          /\ idx <= MinRows
          /\ \A i \in compared : (i + 1) \in DOMAIN df_old_sorted
                                 /\ (i + 1) \in DOMAIN df_new_sorted
          /\ ("row_count_mismatch" \in warnings)
                <=> (Len(df_old_sorted) # Len(df_new_sorted))
          /\ \A k \in DOMAIN mismatch_report : mismatch_report[k].Row <= MinRows
    /\ LoopOver => compared = 0..(MinRows - 1)

C2_Witness ==
    /\ pc = "reported"
    /\ Len(df_old_sorted) = 2
    /\ Len(df_new_sorted) = 1
    /\ "row_count_mismatch" \in warnings
    /\ compared = {0}

NothingCompared ==
    /\ compared = {}
    /\ mismatch_report = <<>>
    /\ mismatched_columns = {}
    /\ summary_df = <<>>

(* C4: a run with no key column, or with a key column that one of the      *)
(* files lacks, or with a precision outside 1..10, is rejected before any  *)
(* row is compared and leaves no report.                                   *)
C4_RejectedBeforeComparison ==
    /\ (InLoop \/ ~NothingCompared) =>
          /\ sort_cols # <<>>
          /\ \A i \in DOMAIN sort_cols :
                sort_cols[i] \in df_old.columns /\ sort_cols[i] \in df_new.columns
          /\ float_precision \in FloatPrecisionMin..FloatPrecisionMax
    /\ Rejected => NothingCompared

C4_Witness ==
    /\ pc = "KeyError"
    /\ sort_cols = <<"v", "id">>
    /\ df_new.columns = {"v", "w"}
    /\ Len(df_new.rows) = 2
    /\ NothingCompared

RecordsWith(col) ==
    {k \in DOMAIN mismatch_report : col \in DOMAIN mismatch_report[k].Old}

(* C9: the summary holds, for every mismatched column, the number of       *)
(* records with that column and that number / min(m,n) * 100, which is     *)
(* above 0 and at most 100; neither that division nor the progress         *)
(* fraction divides by zero, empty files included.                         *)
C9_SummaryCountsAndPercentages ==
    /\ pc # "ZeroDivisionError"
    /\ progress.exc = "none" /\ progress.den # 0
    /\ pc = "reported" =>
          /\ {summary_df[k].Column : k \in DOMAIN summary_df} = mismatched_columns
          /\ Len(summary_df) = Cardinality(mismatched_columns)
          /\ \A k \in DOMAIN summary_df :
                LET r == summary_df[k]
                IN  /\ r.Count = Cardinality(RecordsWith(r.Column))
                    /\ r.Percent.exc = "none"
                    /\ r.Percent.den = MinRows
                    /\ r.Percent.den > 0
                    /\ r.Percent.num = r.Count * 100
                    /\ r.Percent.num > 0
                    /\ r.Percent.num <= 100 * r.Percent.den

C9_Witness ==
    /\ pc = "reported"
    /\ Len(df_old_sorted) = 2
    /\ Len(df_new_sorted) = 1
    /\ Len(summary_df) = 2
    /\ summary_df[1].Percent = [exc |-> "none", num |-> 100, den |-> 1]

(* C10: the records are in strictly increasing Row order; a Row is the     *)
(* 1-based position of the compared row, within 1..min(m,n), and occurs    *)
(* once; the Key values are those of the row of file 1 at that position.   *)
C10_RecordsOrderedWithBaselineKeys ==
    InLoop =>
        /\ \A j, k \in DOMAIN mismatch_report :
              j < k => mismatch_report[j].Row < mismatch_report[k].Row
        /\ \A k \in DOMAIN mismatch_report :
              LET r == mismatch_report[k]
              IN  /\ r.Row \in 1..MinRows
                  /\ (r.Row - 1) \in compared
                  /\ DOMAIN r.Key = {sort_cols[i] : i \in DOMAIN sort_cols}
                  /\ \A c \in DOMAIN r.Key : r.Key[c] = df_old_sorted[r.Row][c]
                  /\ \A c \in DOMAIN r.Old : r.Old[c] = df_old_sorted[r.Row][c]

C10_Witness ==
    /\ LoopOver
    /\ Len(mismatch_report) = 2
    /\ mismatch_report[2].Row = 2
    /\ mismatch_report[1].Key # [k \in DOMAIN mismatch_report[1].Key |->
                                    df_new_sorted[1][k]]

=============================================================================
